---- MODULE Spec2Model ----
(***************************************************************************)
(* Model of miraiml.pipeline.compose (src/miraiml/pipeline.py).            *)
(*                                                                         *)
(* compose(steps) validates a list of (alias, class_type) pairs and        *)
(* returns a new class whose `steps` attribute is bound to the list it     *)
(* was given.  Python lists are objects: the model keeps them in a heap    *)
(* and a composed class holds a reference into that heap.                  *)
(***************************************************************************)
EXTENDS Integers, Sequences, FiniteSets, TLC

VARIABLES heap,    \* list objects: heap[r] is the content of list object r
          types,   \* the classes compose has returned; types[t].steps is a reference
          log      \* the records of the last two finished calls of compose

vars == <<heap, types, log>>

\* ---------------------------------------------------------------- bounds
MaxSteps == 2      \* longest step list handed to compose
MaxTypes == 2      \* classes compose creates in one behaviour of the caller

\* ---------------------------------------------------------------- values
\* An alias is any Python value; isStr is isinstance(alias, str) and chars
\* are the characters of the string (of its repr when it is not a string).
Str(cs) == [isStr |-> TRUE, chars |-> cs]
NonStr(cs) == [isStr |-> FALSE, chars |-> cs]

Digits == {"0", "1", "2", "3", "4", "5", "6", "7", "8", "9"}

Aliases ==
    { Str(<<"a">>), Str(<<"b">>), Str(<<"a", "_", "b">>),
      Str(<< >>), Str(<<"1", "a">>), Str(<<"a", "_", "_", "b">>),
      NonStr(<<"1">>) }

\* dir(class_type), restricted to the four names compose looks for.
Capabilities == {"fit", "transform", "predict", "predict_proba"}
ClassTypes == SUBSET Capabilities

Step(alias, class_type) == [alias |-> alias, class_type |-> class_type]
AllSteps == { Step(a, c) : a \in Aliases, c \in ClassTypes }

\* The descriptors the caller of the heap specification works with.
FullStep == {"fit", "transform", "predict"}
CallerSteps ==
    { Step(Str(<<"a">>), FullStep), Step(Str(<<"b">>), FullStep),
      Step(Str(<<"1", "a">>), FullStep) }

\* ---------------------------------------------------------------- errors
NoError == [kind |-> "none", msg |-> "none"]
NotAString == [kind |-> "TypeError", msg |-> "is not a string"]
NotAllowed == [kind |-> "ValueError", msg |-> "is not allowed for an alias"]
MustImplementFit == [kind |-> "NotImplementedError", msg |-> "must implement fit"]
MustImplementTransform ==
    [kind |-> "NotImplementedError", msg |-> "must implement transform"]
MustImplementPredict ==
    [kind |-> "NotImplementedError", msg |-> "must implement predict or predict_proba"]
\* The repeated-alias error raised as an error of a kind of its own.
RepeatedAliasesKeyError ==
    [kind |-> "KeyError", msg |-> "Repeated aliases are not allowed"]
RepeatedAliases == [kind |-> "ValueError", msg |-> "Repeated aliases are not allowed"]

\* ---------------------------------------------------------------- naming
\* miraiml.util.is_valid_pipeline_name: rejects the empty string, a leading
\* digit and any occurrence of '__'.
HasSeparator(cs) ==
    \E i \in 1..(Len(cs) - 1) : cs[i] = "_" /\ cs[i + 1] = "_"

is_valid_pipeline_name(cs) ==
    /\ Len(cs) > 0
    /\ cs[1] \notin Digits
    /\ ~HasSeparator(cs)

\* ---------------------------------------------------------------- compose
\* set(aliases)
ToSet(s) == { s[i] : i \in DOMAIN s }

\* The check for repeated aliases left out.
HasRepeatedNever(aliases) == FALSE

\* The check for repeated aliases also refusing an empty list.
HasRepeatedOrEmpty(aliases) ==
    Len(aliases) = 0 \/ Cardinality(ToSet(aliases)) # Len(aliases)

\* len(set(aliases)) != len(aliases)
HasRepeated(aliases) == Cardinality(ToSet(aliases)) # Len(aliases)

\* The checks of the alias with fit looked for before the name is checked.
CheckAliasFitFirst(alias, class_content) ==
    IF ~alias.isStr THEN NotAString
    ELSE IF "fit" \notin class_content THEN MustImplementFit
    ELSE IF ~is_valid_pipeline_name(alias.chars) THEN NotAllowed
    ELSE NoError

\* The checks of the alias with the name checked before the type.
CheckAliasNameFirst(alias, class_content) ==
    IF ~is_valid_pipeline_name(alias.chars) THEN NotAllowed
    ELSE IF ~alias.isStr THEN NotAString
    ELSE IF "fit" \notin class_content THEN MustImplementFit
    ELSE NoError

\* Lines 119-128 of the loop body: the checks of the alias and of fit.
CheckAlias(alias, class_content) ==
    IF ~alias.isStr THEN NotAString
    ELSE IF ~is_valid_pipeline_name(alias.chars) THEN NotAllowed
    ELSE IF "fit" \notin class_content THEN MustImplementFit
    ELSE NoError

\* The position check comparing with <= : no descriptor counts as the last.
CheckPositionOffByOne(steps, aliases, class_content) ==
    IF Len(aliases) <= Len(steps)
    THEN IF "transform" \notin class_content
         THEN MustImplementTransform ELSE NoError
    ELSE IF "predict" \notin class_content /\ "predict_proba" \notin class_content
         THEN MustImplementPredict ELSE NoError

\* The position check asking the last step-type for predict alone.
CheckPositionPredictOnly(steps, aliases, class_content) ==
    IF Len(aliases) < Len(steps)
    THEN IF "transform" \notin class_content
         THEN MustImplementTransform ELSE NoError
    ELSE IF "predict" \notin class_content
         THEN MustImplementPredict ELSE NoError

\* Lines 132-141 of the loop body: the capability the position requires,
\* decided after the alias has been appended to aliases.
CheckPosition(steps, aliases, class_content) ==
    IF Len(aliases) < Len(steps)
    THEN IF "transform" \notin class_content
         THEN MustImplementTransform ELSE NoError
    ELSE IF "predict" \notin class_content /\ "predict_proba" \notin class_content
         THEN MustImplementPredict ELSE NoError

\* The aliases is_valid_pipeline_name is called with for one descriptor: the
\* call is behind the isinstance test.
ProbedAt(alias) == IF alias.isStr THEN <<alias>> ELSE << >>

\* The for loop from position i on, then the check for repeated aliases.
RECURSIVE ComposeLoop(_, _, _, _)
ComposeLoop(steps, i, aliases, probed) ==
    IF i > Len(steps)
    THEN [err |-> IF HasRepeated(aliases) THEN RepeatedAliases ELSE NoError,
          aliases |-> aliases, probed |-> probed]
    ELSE LET alias == steps[i].alias
             class_content == steps[i].class_type
             e1 == CheckAlias(alias, class_content)
             appended == Append(aliases, alias)
             e2 == CheckPosition(steps, appended, class_content)
             p == probed \o ProbedAt(alias)
         IN  IF e1 # NoError
             THEN [err |-> e1, aliases |-> aliases, probed |-> p]
             ELSE IF e2 # NoError
             THEN [err |-> e2, aliases |-> appended, probed |-> p]
             ELSE ComposeLoop(steps, i + 1, appended, p)

Validate(steps) == ComposeLoop(steps, 1, << >>, << >>)

\* list(reversed(s)) for a list content s
Reversed(s) == [k \in DOMAIN s |-> s[Len(s) + 1 - k]]

\* The new class bound to a fresh list holding the descriptors reversed.
NewTypeReversedCopy(h, ts, r) ==
    LET fresh == Cardinality(DOMAIN h) + 1
    IN  [heap |-> h @@ (fresh :> Reversed(h[r])),
         types |-> Append(ts, [steps |-> fresh])]

\* The new class bound to the list object r after reversing it in place.
NewTypeReversesInPlace(h, ts, r) ==
    [heap |-> [h EXCEPT ![r] = Reversed(@)], types |-> Append(ts, [steps |-> r])]

\* type('MiraiPipeline', (BasePipelineClass,), dict(steps=steps)): the new
\* class is bound to the list object r itself; no list is copied or changed.
NewType(h, ts, r) == [heap |-> h, types |-> Append(ts, [steps |-> r])]

\* The steps a class is bound to, read through its reference.
TypeSteps(t) == heap[types[t].steps]

\* One call compose(steps) with the list object r as argument.
compose(r) ==
    LET v == Validate(heap[r])
        ok == v.err = NoError
        n == IF ok THEN NewType(heap, types, r)
                   ELSE [heap |-> heap, types |-> types]
        call == [list |-> r, arg |-> heap[r], err |-> v.err,
                 probed |-> v.probed,
                 type |-> IF ok THEN Len(n.types) ELSE 0,
                 steps |-> IF ok THEN n.heap[n.types[Len(n.types)].steps]
                                 ELSE << >>]
    IN  /\ heap' = n.heap
        /\ types' = n.types
        /\ log' = IF Len(log) < 2 THEN Append(log, call)
                                  ELSE Append(Tail(log), call)

\* ---------------------------------------------------------------- caller
\* The caller owns one list object, the one it passes to compose.
CallerLists == {1}

\* steps.append(d)
ListAppend(r, d) ==
    /\ Len(heap[r]) < MaxSteps
    /\ heap' = [heap EXCEPT ![r] = Append(@, d)]
    /\ UNCHANGED <<types, log>>

\* del steps[i]
ListRemove(r, i) ==
    /\ i \in DOMAIN heap[r]
    /\ heap' = [heap EXCEPT ![r] =
                  SubSeq(@, 1, i - 1) \o SubSeq(@, i + 1, Len(@))]
    /\ UNCHANGED <<types, log>>

\* steps[i] = d
ListReplace(r, i, d) ==
    /\ i \in DOMAIN heap[r]
    /\ heap[r][i] # d
    /\ heap' = [heap EXCEPT ![r][i] = d]
    /\ UNCHANGED <<types, log>>

\* steps.reverse()
ListReverse(r) ==
    /\ Len(heap[r]) > 1
    /\ heap' = [heap EXCEPT ![r] = Reversed(@)]
    /\ UNCHANGED <<types, log>>

ComposeCall(r) ==
    /\ Len(types) < MaxTypes
    /\ compose(r)

\* ---------------------------------------------------------------- specifications
\* The caller's list is empty at first; the caller edits it and composes it.
Init ==
    /\ heap = [r \in CallerLists |-> << >>]
    /\ types = << >>
    /\ log = << >>

Next ==
    \/ \E r \in CallerLists, d \in CallerSteps : ListAppend(r, d)
    \/ \E r \in CallerLists, i \in 1..MaxSteps : ListRemove(r, i)
    \/ \E r \in CallerLists, i \in 1..MaxSteps, d \in CallerSteps : ListReplace(r, i, d)
    \/ \E r \in CallerLists : ListReverse(r)
    \/ \E r \in CallerLists : ComposeCall(r)

Spec == Init /\ [][Next]_vars

\* compose applied once to every step list of at most MaxSteps descriptors.
InitCompose ==
    /\ \E k \in 0..MaxSteps : \E steps \in [1..k -> AllSteps] : heap = <<steps>>
    /\ types = << >>
    /\ log = << >>

ComposeOnce ==
    /\ log = << >>
    /\ compose(1)

NextCompose == ComposeOnce

SpecCompose == InitCompose /\ [][NextCompose]_vars

\* ---------------------------------------------------------------- properties
\* The vocabulary of the properties, stated on the argument of a call
\* without reference to the loop above.
Calls == { log[k] : k \in DOMAIN log }
Returned(e) == e.err = NoError

InvalidAliasType(err) == err = NotAString
InvalidAliasName(err) == err = NotAllowed
MissingCapability(err) == err.kind = "NotImplementedError"
DuplicateAlias(err) == err = RepeatedAliases

Accepted(alias) == alias.isStr /\ is_valid_pipeline_name(alias.chars)
Rejected(alias) == alias.isStr /\ ~is_valid_pipeline_name(alias.chars)

LacksPositional(steps, i) ==
    IF i < Len(steps)
    THEN "transform" \notin steps[i].class_type
    ELSE {"predict", "predict_proba"} \cap steps[i].class_type = {}

Violates(steps, i) ==
    \/ ~Accepted(steps[i].alias)
    \/ "fit" \notin steps[i].class_type
    \/ LacksPositional(steps, i)

NoneViolatesBefore(steps, i) == \A j \in 1..(i - 1) : ~Violates(steps, j)

Repeats(steps) ==
    \E i, j \in DOMAIN steps : i # j /\ steps[i].alias = steps[j].alias

WellFormed(steps) ==
    /\ \A i \in DOMAIN steps : ~Violates(steps, i)
    /\ ~Repeats(steps)

BothAliasA(steps) ==
    /\ Len(steps) = 2
    /\ steps[1].alias = Str(<<"a">>)
    /\ steps[2].alias = Str(<<"a">>)

\* C1 as stated: a two-element list whose descriptors both carry the alias
\* 'a' fails with DuplicateAlias whatever the two step-types are.
C1_AlwaysDuplicateAlias ==
    \A e \in Calls : BothAliasA(e.arg) => DuplicateAlias(e.err)

\* C1 amended: a two-element list whose descriptors both carry the alias 'a'
\* always fails; with DuplicateAlias exactly when both step-types pass the
\* capability checks of their positions, with MissingCapability otherwise.
C1_DuplicateAfterCapabilities ==
    \A e \in Calls :
        BothAliasA(e.arg) =>
            /\ ~Returned(e)
            /\ DuplicateAlias(e.err) <=>
                  (~Violates(e.arg, 1) /\ ~Violates(e.arg, 2))
            /\ ~DuplicateAlias(e.err) => MissingCapability(e.err)

C1_Witness ==
    \E e \in Calls :
        /\ BothAliasA(e.arg)
        /\ e.arg[1].class_type # e.arg[2].class_type
        /\ DuplicateAlias(e.err)

\* C2 as stated: compose fails with MissingCapability whenever a non-last
\* descriptor lacks transform or the last lacks both predict and
\* predict_proba, at every length and position.
C2_AlwaysMissingCapability ==
    \A e \in Calls : \A i \in DOMAIN e.arg :
        LacksPositional(e.arg, i) => MissingCapability(e.err)

\* C2 amended: compose fails whenever a descriptor lacks the capability of
\* its position, and the error is MissingCapability provided every alias up
\* to and including that descriptor is a string the naming predicate accepts.
C2_MissingCapabilityAfterAliases ==
    \A e \in Calls : \A i \in DOMAIN e.arg :
        LacksPositional(e.arg, i) =>
            /\ ~Returned(e)
            /\ (\A j \in 1..i : Accepted(e.arg[j].alias)) =>
                  MissingCapability(e.err)

C2_Witness ==
    \E e \in Calls :
        /\ Len(e.arg) = 2
        /\ e.arg[1].class_type = {"fit", "predict"}
        /\ Accepted(e.arg[1].alias)
        /\ e.err = MustImplementTransform

\* C3 as stated: a list with an alias the naming predicate rejects fails with
\* InvalidAliasName, and an accepted alias never causes InvalidAliasName.
C3_AlwaysInvalidAliasName ==
    \A e \in Calls :
        /\ (\E i \in DOMAIN e.arg : Rejected(e.arg[i].alias)) =>
              InvalidAliasName(e.err)
        /\ InvalidAliasName(e.err) =>
              \E i \in DOMAIN e.arg : Rejected(e.arg[i].alias)

\* C3 amended: a list with a rejected alias always fails, with
\* InvalidAliasName when no earlier descriptor has a violation of its own
\* (a non-string alias, a rejected alias or a missing capability); and
\* InvalidAliasName is raised only for a list that has a rejected alias.
C3_InvalidAliasNameWhenFirst ==
    \A e \in Calls :
        /\ \A i \in DOMAIN e.arg :
              Rejected(e.arg[i].alias) =>
                  /\ ~Returned(e)
                  /\ NoneViolatesBefore(e.arg, i) => InvalidAliasName(e.err)
        /\ InvalidAliasName(e.err) =>
              \E i \in DOMAIN e.arg :
                  Rejected(e.arg[i].alias) /\ NoneViolatesBefore(e.arg, i)

C3_Witness ==
    \E e \in Calls :
        /\ Len(e.arg) = 2
        /\ Accepted(e.arg[1].alias)
        /\ e.arg[2].alias = Str(<<"a", "_", "_", "b">>)
        /\ InvalidAliasName(e.err)

\* C4: compose returns a type exactly when every alias is an accepted
\* string, the aliases are pairwise distinct, every step-type has fit, every
\* non-last one has transform and the last has predict or predict_proba; in
\* every other case it raises and no type is created.
C4_ReturnsIffWellFormed ==
    /\ \A e \in Calls :
          /\ Returned(e) <=> WellFormed(e.arg)
          /\ Returned(e) <=> e.type \in DOMAIN types
          /\ ~Returned(e) => e.type = 0
    /\ Len(types) = Cardinality({ k \in DOMAIN log : Returned(log[k]) })

C4_Witness ==
    \E e \in Calls :
        /\ Len(e.arg) = 2
        /\ e.arg[1].class_type = {"fit", "transform"}
        /\ e.arg[2].class_type = {"fit", "predict_proba"}
        /\ Returned(e)
        /\ e.type \in DOMAIN types

\* C5: the steps of the type a successful call returns are the supplied
\* descriptors, the same elements in the same order.
C5_StepsAreTheArgument ==
    \A e \in Calls :
        Returned(e) => e.steps = e.arg /\ TypeSteps(e.type) = e.arg

C5_Witness ==
    \E e \in Calls :
        /\ Returned(e)
        /\ Len(e.arg) = 2
        /\ e.arg[1] # e.arg[2]
        /\ TypeSteps(e.type) = e.arg

\* C6 as stated: once compose has returned a type, the steps the type is
\* bound to never change, whatever the caller does to the list it passed,
\* so they still pass the validation in every later state.
C6_TypeStepsNeverChange ==
    \A e \in Calls :
        Returned(e) =>
            /\ TypeSteps(e.type) = e.steps
            /\ Validate(TypeSteps(e.type)).err = NoError

\* C7: a call of compose leaves every list and every existing type as it
\* was, and its outcome is that of the remembered earlier calls with an
\* equal argument: the same error, or a distinct type with equal steps.
ComposeStep == log' # log \/ types' # types

FailsOnRepeat(e) ==
    (\A i \in DOMAIN e.arg : ~Violates(e.arg, i)) /\ Repeats(e.arg)
FailsOnName(e) ==
    \E i \in DOMAIN e.arg :
        Rejected(e.arg[i].alias) /\ NoneViolatesBefore(e.arg, i)

\* C8 as stated: the error raised for a repeated alias is of a different
\* kind than the error raised for an alias the naming predicate rejects.
C8_DifferentKinds ==
    \A e1, e2 \in Calls :
        FailsOnRepeat(e1) /\ FailsOnName(e2) => e1.err.kind # e2.err.kind

\* C8 amended: the error raised for a repeated alias and the error raised
\* for a rejected alias are of the same kind, ValueError, and differ in
\* their message only.
C8_SameKindDifferentMessage ==
    \A e1, e2 \in Calls :
        FailsOnRepeat(e1) /\ FailsOnName(e2) =>
            /\ e1.err.kind = "ValueError"
            /\ e2.err.kind = "ValueError"
            /\ e1.err.msg # e2.err.msg

C8_Witness ==
    \E e1, e2 \in Calls :
        /\ FailsOnRepeat(e1) /\ FailsOnName(e2)
        /\ ~Returned(e1) /\ ~Returned(e2)

\* The error C9 expects of the descriptor at position i.
ExpectedAt(steps, i) ==
    IF ~steps[i].alias.isStr THEN NotAString
    ELSE IF Rejected(steps[i].alias) THEN NotAllowed
    ELSE IF "fit" \notin steps[i].class_type THEN MustImplementFit
    ELSE IF i < Len(steps) THEN MustImplementTransform
    ELSE MustImplementPredict

\* C9: the error raised is that of the first descriptor with a violation of
\* its own, decided in the order alias type, alias name, fit, capability of
\* the position; the naming predicate is never called with a non-string
\* alias; DuplicateAlias is raised only when no descriptor has a violation.
C9_FirstViolationDecides ==
    \A e \in Calls :
        /\ \A i \in DOMAIN e.arg :
              Violates(e.arg, i) /\ NoneViolatesBefore(e.arg, i) =>
                  e.err = ExpectedAt(e.arg, i)
        /\ \A k \in DOMAIN e.probed : e.probed[k].isStr
        /\ DuplicateAlias(e.err) => \A i \in DOMAIN e.arg : ~Violates(e.arg, i)

C9_Witness ==
    \E e \in Calls :
        /\ Len(e.arg) = 2
        /\ Rejected(e.arg[1].alias)
        /\ "fit" \notin e.arg[1].class_type
        /\ ~e.arg[2].alias.isStr
        /\ InvalidAliasName(e.err)

\* C10: compose called with an empty list raises nothing and returns a type
\* whose steps are empty.
C10_EmptyListComposes ==
    \A e \in Calls :
        e.arg = << >> =>
            /\ Returned(e)
            /\ e.type \in DOMAIN types
            /\ TypeSteps(e.type) = << >>

C10_Witness ==
    \E e \in Calls : e.arg = << >> /\ e.type \in DOMAIN types

====
